---- MODULE Spec2Model ----
(***************************************************************************)
(* OpenStackAmuletDeployment                                               *)
(* (charmhelpers/contrib/openstack/amulet/deployment.py).                  *)
(*                                                                         *)
(* A Python str is a sequence of one-character strings, so that format()   *)
(* and split() are computed character by character.  Python's None is the  *)
(* value None below; a Python list is a sequence; a dict is a function.    *)
(* Sequences are 1-based: Python's x[0] is x[1] here, x[1] is x[2].        *)
(* A parameter that takes None or a list (use_source, no_origin,           *)
(* exclude_services, include_only) or None, a str or a pattern (message)   *)
(* holds an object with its Python type: NoneObject, List(l), Str(s),      *)
(* Pattern(p, flags).                                                      *)
(***************************************************************************)
EXTENDS Integers, Sequences, FiniteSets, TLC

VARIABLES series, openstack, source, stable, d_services, d_calls, args, result

vars == <<series, openstack, source, stable, d_services, d_calls, args, result>>

\* Python's None; no str equals it, since a str holds one-character strings.
None == <<"None">>

\* Python truthiness of an optional str or list: None and the empty one are false.
Truthy(x) == x # None /\ x # <<>>

\* str.format() / '%s' of an optional str: None prints as 'None'.
str(x) == IF x = None THEN <<"N","o","n","e">> ELSE x

\* The objects a parameter of several types may hold.
NoneObject == [type |-> "NoneType", value |-> <<>>, flags |-> ""]
List(l) == [type |-> "list", value |-> l, flags |-> ""]
Str(s) == [type |-> "str", value |-> s, flags |-> ""]
Pattern(p, flags) == [type |-> "Pattern", value |-> p, flags |-> flags]

\* Python truthiness of such an object: None, [] and '' are false.
truthy(x) == x.type = "Pattern" \/ (x.type \in {"list", "str"} /\ x.value # <<>>)

\* x in l, for a list l.
In(x, l) == \E i \in DOMAIN l : l[i] = x

\* The outcome of a call: a returned value or a raised exception.
Return(v) == [exc |-> "", val |-> v]
Raise(e) == [exc |-> e, val |-> None]

\* ---- string literals of the source --------------------------------------
precise == <<"p","r","e","c","i","s","e">>
quantal == <<"q","u","a","n","t","a","l">>
raring == <<"r","a","r","i","n","g">>
saucy == <<"s","a","u","c","y">>
trusty == <<"t","r","u","s","t","y">>
utopic == <<"u","t","o","p","i","c">>
vivid == <<"v","i","v","i","d">>
wily == <<"w","i","l","y">>
xenial == <<"x","e","n","i","a","l">>
yakkety == <<"y","a","k","k","e","t","y">>

essex == <<"e","s","s","e","x">>
folsom == <<"f","o","l","s","o","m">>
grizzly == <<"g","r","i","z","z","l","y">>
havana == <<"h","a","v","a","n","a">>
icehouse == <<"i","c","e","h","o","u","s","e">>
juno == <<"j","u","n","o">>
kilo == <<"k","i","l","o">>
liberty == <<"l","i","b","e","r","t","y">>
mitaka == <<"m","i","t","a","k","a">>
newton == <<"n","e","w","t","o","n">>

cloud_precise_folsom == <<"c","l","o","u","d",":","p","r","e","c","i","s","e","-","f","o","l","s","o","m">>
cloud_precise_grizzly == <<"c","l","o","u","d",":","p","r","e","c","i","s","e","-","g","r","i","z","z","l","y">>
cloud_precise_havana == <<"c","l","o","u","d",":","p","r","e","c","i","s","e","-","h","a","v","a","n","a">>
cloud_precise_icehouse == <<"c","l","o","u","d",":","p","r","e","c","i","s","e","-","i","c","e","h","o","u","s","e">>
cloud_trusty_juno == <<"c","l","o","u","d",":","t","r","u","s","t","y","-","j","u","n","o">>
cloud_trusty_kilo == <<"c","l","o","u","d",":","t","r","u","s","t","y","-","k","i","l","o">>
cloud_trusty_liberty == <<"c","l","o","u","d",":","t","r","u","s","t","y","-","l","i","b","e","r","t","y">>
cloud_trusty_mitaka == <<"c","l","o","u","d",":","t","r","u","s","t","y","-","m","i","t","a","k","a">>
cloud_xenial_newton == <<"c","l","o","u","d",":","x","e","n","i","a","l","-","n","e","w","t","o","n">>

\* ---- charm names of the source -------------------------------------------
mysql == <<"m","y","s","q","l">>
mongodb == <<"m","o","n","g","o","d","b">>
rabbitmq_server == <<"r","a","b","b","i","t","m","q","-","s","e","r","v","e","r">>
ceph == <<"c","e","p","h">>
ceph_osd == <<"c","e","p","h","-","o","s","d">>
ceph_radosgw == <<"c","e","p","h","-","r","a","d","o","s","g","w">>
ceph_mon == <<"c","e","p","h","-","m","o","n">>
ceph_proxy == <<"c","e","p","h","-","p","r","o","x","y">>
cinder_ceph == <<"c","i","n","d","e","r","-","c","e","p","h">>
hacluster == <<"h","a","c","l","u","s","t","e","r">>
neutron_openvswitch == <<"n","e","u","t","r","o","n","-","o","p","e","n","v","s","w","i","t","c","h">>
nrpe == <<"n","r","p","e">>
openvswitch_odl == <<"o","p","e","n","v","s","w","i","t","c","h","-","o","d","l">>
neutron_api_odl == <<"n","e","u","t","r","o","n","-","a","p","i","-","o","d","l">>
odl_controller == <<"o","d","l","-","c","o","n","t","r","o","l","l","e","r">>
cinder_backup == <<"c","i","n","d","e","r","-","b","a","c","k","u","p">>
nexentaedge_data == <<"n","e","x","e","n","t","a","e","d","g","e","-","d","a","t","a">>
nexentaedge_iscsi_gw == <<"n","e","x","e","n","t","a","e","d","g","e","-","i","s","c","s","i","-","g","w">>
nexentaedge_swift_gw == <<"n","e","x","e","n","t","a","e","d","g","e","-","s","w","i","f","t","-","g","w">>
cinder_nexentaedge == <<"c","i","n","d","e","r","-","n","e","x","e","n","t","a","e","d","g","e">>
nexentaedge_mgmt == <<"n","e","x","e","n","t","a","e","d","g","e","-","m","g","m","t">>

\* The default of use_source.
default_use_source ==
    <<mysql, mongodb, rabbitmq_server, ceph, ceph_osd, ceph_radosgw, ceph_mon, ceph_proxy>>

\* The default of no_origin.
default_no_origin ==
    <<cinder_ceph, hacluster, neutron_openvswitch, nrpe, openvswitch_odl, neutron_api_odl, odl_controller, cinder_backup, nexentaedge_data, nexentaedge_iscsi_gw, nexentaedge_swift_gw, cinder_nexentaedge, nexentaedge_mgmt>>

\* The prefixes of the location formats.
cs_prefix == <<"c","s",":">>
next_prefix == <<"c","s",":","~","o","p","e","n","s","t","a","c","k","-","c","h","a","r","m","e","r","s","-","n","e","x","t","/">>

\* ---- _get_openstack_release ----------------------------------------------

\* The attributes assigned from range(16), in the order of the assignment:
\* self.<series>_<release> is the position of <<series, release>>, from 0.
release_enum ==
    << <<precise, essex>>, <<precise, folsom>>, <<precise, grizzly>>,
       <<precise, havana>>, <<precise, icehouse>>,
       <<trusty, icehouse>>, <<trusty, juno>>, <<utopic, juno>>,
       <<trusty, kilo>>, <<vivid, kilo>>, <<trusty, liberty>>,
       <<wily, liberty>>, <<trusty, mitaka>>,
       <<xenial, mitaka>>, <<xenial, newton>>,
       <<yakkety, newton>> >>

\* self.<s>_<r>, the integer the tuple assignment gives the attribute.
attr(s, r) == CHOOSE i \in 0..(Len(release_enum) - 1) : release_enum[i + 1] = <<s, r>>

\* The dict releases of _get_openstack_release.
releases ==
    (<<precise, None>> :> attr(precise, essex)) @@
    (<<precise, cloud_precise_folsom>> :> attr(precise, folsom)) @@
    (<<precise, cloud_precise_grizzly>> :> attr(precise, grizzly)) @@
    (<<precise, cloud_precise_havana>> :> attr(precise, havana)) @@
    (<<precise, cloud_precise_icehouse>> :> attr(precise, icehouse)) @@
    (<<trusty, None>> :> attr(trusty, icehouse)) @@
    (<<trusty, cloud_trusty_juno>> :> attr(trusty, juno)) @@
    (<<trusty, cloud_trusty_kilo>> :> attr(trusty, kilo)) @@
    (<<trusty, cloud_trusty_liberty>> :> attr(trusty, liberty)) @@
    (<<trusty, cloud_trusty_mitaka>> :> attr(trusty, mitaka)) @@
    (<<utopic, None>> :> attr(utopic, juno)) @@
    (<<vivid, None>> :> attr(vivid, kilo)) @@
    (<<wily, None>> :> attr(wily, liberty)) @@
    (<<xenial, None>> :> attr(xenial, mitaka)) @@
    (<<xenial, cloud_xenial_newton>> :> attr(xenial, newton)) @@
    (<<yakkety, None>> :> attr(yakkety, newton))

\* Mutant: a lookup with a default (releases.get(key, 0)) instead of a KeyError.
get_openstack_release_default(self) ==
    IF <<self.series, self.openstack>> \in DOMAIN releases
    THEN Return(releases[<<self.series, self.openstack>>])
    ELSE Return(0)

\* return releases[(self.series, self.openstack)]
get_openstack_release(self) ==
    IF <<self.series, self.openstack>> \in DOMAIN releases
    THEN Return(releases[<<self.series, self.openstack>>])
    ELSE Raise("KeyError")

\* ---- _get_openstack_release_string ---------------------------------------

\* The OrderedDict releases of _get_openstack_release_string.
release_strings ==
    (precise :> essex) @@ (quantal :> folsom) @@ (raring :> grizzly) @@
    (saucy :> havana) @@ (trusty :> icehouse) @@ (utopic :> juno) @@
    (vivid :> kilo) @@ (wily :> liberty) @@ (xenial :> mitaka) @@
    (yakkety :> newton)

\* s.startswith(sep)
startswith(s, sep) == Len(s) >= Len(sep) /\ SubSeq(s, 1, Len(sep)) = sep

\* str.split(sep) for a non-empty sep: the pieces between the occurrences of
\* sep, found left to right without overlap; cur is the piece being read.
RECURSIVE split_from(_, _, _)
split_from(s, sep, cur) ==
    IF s = <<>> THEN <<cur>>
    ELSE IF startswith(s, sep)
         THEN <<cur>> \o split_from(SubSeq(s, Len(sep) + 1, Len(s)), sep, <<>>)
         ELSE split_from(Tail(s), sep, Append(cur, Head(s)))

split(s, sep) == split_from(s, sep, <<>>)

\* Mutant: the codename is looked up by series even when an origin is given.
get_openstack_release_string_by_series(self) ==
    IF self.series \in DOMAIN release_strings
    THEN Return(release_strings[self.series])
    ELSE Raise("KeyError")

\* if self.openstack: the text after '<series>-' in the part after ':', up to
\* the next '/'; an index out of range raises IndexError.
\* else: releases[self.series].
get_openstack_release_string(self) ==
    IF Truthy(self.openstack)
    THEN LET by_colon == split(self.openstack, <<":">>) IN
         IF Len(by_colon) < 2 THEN Raise("IndexError")
         ELSE LET os_origin == by_colon[2]
                  by_series == split(os_origin, str(self.series) \o <<"-">>) IN
              IF Len(by_series) < 2 THEN Raise("IndexError")
              ELSE Return(split(by_series[2], <<"/">>)[1])
    ELSE IF self.series \in DOMAIN release_strings
         THEN Return(release_strings[self.series])
         ELSE Raise("KeyError")

\* ---- get_ceph_expected_pools ---------------------------------------------

pools_kilo == <<"rbd", "cinder", "glance">>
pools_juno == <<"data", "metadata", "rbd", "cinder", "glance">>
pools_radosgw == <<".rgw.root", ".rgw.control", ".rgw", ".rgw.gc", ".users.uid">>

\* Mutant: the comparison is > instead of >=, so trusty_kilo counts as Juno.
get_ceph_expected_pools_gt(self, radosgw) ==
    LET rel == get_openstack_release(self) IN
    IF rel.exc # "" THEN rel
    ELSE LET pools == IF rel.val > attr(trusty, kilo) THEN pools_kilo ELSE pools_juno
         IN Return(IF radosgw THEN pools \o pools_radosgw ELSE pools)

\* The KeyError of _get_openstack_release propagates; otherwise the base list
\* by the comparison with self.trusty_kilo, extended when radosgw.
get_ceph_expected_pools(self, radosgw) ==
    LET rel == get_openstack_release(self) IN
    IF rel.exc # "" THEN rel
    ELSE LET pools == IF rel.val >= attr(trusty, kilo) THEN pools_kilo ELSE pools_juno
         IN Return(IF radosgw THEN pools \o pools_radosgw ELSE pools)

\* ---- _determine_branch_locations -----------------------------------------

\* A service dict is [name, location]; location is None when the key is absent
\* (svc.get('location') is None).  The keys units and constraints are neither
\* read nor written by this class.

\* Charms outside the ~openstack-charmers.
base_charms ==
    (mysql :> <<precise, trusty>>) @@
    (mongodb :> <<precise, trusty>>) @@
    (nrpe :> <<precise, trusty, wily, xenial>>)

\* 'cs:{}/{}'.format(target_series, name)
cs_location(target_series, name) ==
    cs_prefix \o str(target_series) \o <<"/">> \o str(name)

\* 'cs:~openstack-charmers-next/{}/{}'.format(series, name)
next_location(target_series, name) ==
    next_prefix \o str(target_series) \o <<"/">> \o str(name)

\* Mutant: a base charm always gets the requested series.
base_charm_series_requested(requested, name) == requested

\* The series of a base charm: the requested one when the charm supports it,
\* otherwise the last of the charm's list (base_charms[name][-1]).
base_charm_series(requested, name) ==
    IF In(requested, base_charms[name])
    THEN requested
    ELSE base_charms[name][Len(base_charms[name])]

\* Mutant: the location is resolved for every dict, set or not.
branch_location_overwrite(self, svc) ==
    [svc EXCEPT !.location = cs_location(self.series, svc.name)]

\* One iteration of the loop: the dict svc after it.
branch_location(self, svc) ==
    IF Truthy(svc.location) THEN svc
    ELSE IF svc.name \in DOMAIN base_charms
         THEN [svc EXCEPT !.location =
                   cs_location(base_charm_series(self.series, svc.name), svc.name)]
         ELSE IF self.stable
              THEN [svc EXCEPT !.location = cs_location(self.series, svc.name)]
              ELSE [svc EXCEPT !.location = next_location(self.series, svc.name)]

\* The list after the loop (the dicts are changed in place and the list returned).
determine_branch_locations(self, other_services) ==
    [i \in DOMAIN other_services |->
        branch_location(self, other_services[i])]

\* ---- _add_services -------------------------------------------------------

\* if not use_source: use_source = [...]
effective_use_source(use_source) ==
    IF truthy(use_source) THEN use_source.value ELSE default_use_source

\* if not no_origin: no_origin = [...]
effective_no_origin(no_origin) ==
    IF truthy(no_origin) THEN no_origin.value ELSE default_no_origin

\* Mutant: only no_origin keeps a service from 'openstack-origin'.
gets_openstack_origin_no_origin_only(name, use_source, no_origin) ==
    ~In(name, no_origin)

\* svc['name'] not in use_source + no_origin
gets_openstack_origin(name, use_source, no_origin) ==
    ~In(name, use_source \o no_origin)

\* Mutant: no_origin is not consulted for 'source'.
gets_source_ignoring_no_origin(name, use_source, no_origin) ==
    In(name, use_source)

\* svc['name'] in use_source and svc['name'] not in no_origin
gets_source(name, use_source, no_origin) ==
    In(name, use_source) /\ ~In(name, no_origin)

\* self.d.configure(name, {key: value})
configure(name, key, value) ==
    [fn |-> "configure", service |-> name, key |-> key, value |-> value]

\* for svc in services: if svc['name'] not in use_source + no_origin: configure
RECURSIVE origin_loop(_, _, _, _)
origin_loop(services, value, use_source, no_origin) ==
    IF services = <<>> THEN <<>>
    ELSE (IF gets_openstack_origin(Head(services).name, use_source, no_origin)
          THEN <<configure(Head(services).name, "openstack-origin", value)>>
          ELSE <<>>)
         \o origin_loop(Tail(services), value, use_source, no_origin)

\* for svc in services: if svc['name'] in use_source and not in no_origin: configure
RECURSIVE source_loop(_, _, _, _)
source_loop(services, value, use_source, no_origin) ==
    IF services = <<>> THEN <<>>
    ELSE (IF gets_source(Head(services).name, use_source, no_origin)
          THEN <<configure(Head(services).name, "source", value)>>
          ELSE <<>>)
         \o source_loop(Tail(services), value, use_source, no_origin)

\* super()._add_services(this_service, other_services): the call, as the
\* driver sees it.
base_add_services(this_service, other_services) ==
    [fn |-> "_add_services", this_service |-> this_service,
     other_services |-> other_services]

\* Mutant: the base class is called with the list as the caller gave it,
\* and the locations are determined afterwards.
add_services_calls_late(self, this_service, other_services, use_source, no_origin) ==
    <<base_add_services(this_service, other_services)>>

\* The calls _add_services makes on the base class and the driver, in order.
add_services_calls(self, this_service, other_services, use_source, no_origin) ==
    LET resolved == determine_branch_locations(self, other_services)
        services == Append(resolved, this_service)
        us == effective_use_source(use_source)
        no == effective_no_origin(no_origin)
    IN  <<base_add_services(this_service, resolved)>>
        \o (IF Truthy(self.openstack)
            THEN origin_loop(services, self.openstack, us, no)
            ELSE <<>>)
        \o (IF Truthy(self.source)
            THEN source_loop(services, self.source, us, no)
            ELSE <<>>)

\* services = other_services; services.append(this_service): the caller's
\* list after the call, this_service appended to it in place.
add_services_list(self, this_service, other_services) ==
    Append(determine_branch_locations(self, other_services), this_service)

\* ---- _auto_wait_for_status -----------------------------------------------

\* re.compile('.*ready.*', re.IGNORECASE)
default_message == Pattern(<<".","*","r","e","a","d","y",".","*">>, "IGNORECASE")

\* The default of the parameter timeout.
default_timeout == 1800

\* set(l), for a list l.
set(l) == {l[i] : i \in DOMAIN l}

\* if message: (log it) else: message = re.compile('.*ready.*', re.IGNORECASE)
wait_message(message) ==
    IF truthy(message) THEN message ELSE default_message

\* Mutant: include_only is ignored.
wait_services_all(all_services, exclude_services, include_only) ==
    all_services \ set(IF truthy(exclude_services) THEN exclude_services.value ELSE <<>>)

\* The keys of service_messages: include_only when it is given, otherwise
\* set(all_services) - set(exclude_services), exclude_services or [].
wait_services(all_services, exclude_services, include_only) ==
    IF truthy(include_only)
    THEN set(include_only.value)
    ELSE all_services \ set(IF truthy(exclude_services) THEN exclude_services.value ELSE <<>>)

\* self.d.sentry.wait_for_messages(service_messages, timeout=timeout)
wait_for_messages(service_messages, timeout) ==
    [fn |-> "wait_for_messages", messages |-> service_messages, timeout |-> timeout]

\* Mutant: the selection is not validated before the sentry is called.
auto_wait_calls_unchecked(all_services, message, exclude_services, include_only, timeout) ==
    <<wait_for_messages(
        [s \in wait_services(all_services, exclude_services, include_only) |->
            wait_message(message)], timeout)>>

\* The calls _auto_wait_for_status makes on the sentry: none when it raises
\* ValueError, otherwise the one wait_for_messages call.
auto_wait_calls(all_services, message, exclude_services, include_only, timeout) ==
    IF truthy(exclude_services) /\ truthy(include_only)
    THEN <<>>
    ELSE <<wait_for_messages(
             [s \in wait_services(all_services, exclude_services, include_only) |->
                 wait_message(message)], timeout)>>

\* The exception _auto_wait_for_status ends with, "" when it returns:
\* ValueError for a conflicting selection, otherwise whatever the sentry
\* raised (sentry_exc, "" when the sentry returned).
auto_wait_exc(exclude_services, include_only, sentry_exc) ==
    IF truthy(exclude_services) /\ truthy(include_only)
    THEN "ValueError"
    ELSE sentry_exc

\* ---- the object and its operations ---------------------------------------

\* The attributes __init__ sets.
Self == [series |-> series, openstack |-> openstack, source |-> source, stable |-> stable]

\* The record of the last call: the method, the exception it raised ("" when
\* it returned) and the value it returned.
Outcome(op, r) == [op |-> op, exc |-> r.exc, val |-> r.val]

\* AmuletDeployment._add_services adds this_service and every other service
\* to the deployment: their names become keys of self.d.services.
base_services(this_service, other_services) ==
    {this_service.name} \cup {other_services[i].name : i \in DOMAIN other_services}

\* Bounds of the inputs.
MaxOthers == 2
MaxSelection == 2

\* Inputs: origin strings that are not keys of the release table.
cloud_precise_newton == <<"c","l","o","u","d",":","p","r","e","c","i","s","e","-","n","e","w","t","o","n">>
cloud_trusty_kilo_proposed == <<"c","l","o","u","d",":","t","r","u","s","t","y","-","k","i","l","o","/","p","r","o","p","o","s","e","d">>
cloud_precise_zesty == <<"c","l","o","u","d",":","p","r","e","c","i","s","e","-","z","e","s","t","y">>
precise_folsom == <<"p","r","e","c","i","s","e","-","f","o","l","s","o","m">>
cloud_folsom == <<"c","l","o","u","d",":","f","o","l","s","o","m">>
keystone == <<"k","e","y","s","t","o","n","e">>
bob_location == <<"c","s",":","~","b","o","b","/","x","e","n","i","a","l","/","n","o","v","a","-","c","o","m","p","u","t","e">>
ppa_source == <<"p","p","a",":","x">>
unit_is_ready_pattern == <<"^","U","n","i","t"," ","i","s"," ","r","e","a","d","y","$">>
unit_is_ready == <<"U","n","i","t"," ","i","s"," ","r","e","a","d","y">>

\* The lists of length at most n over the set S.
RECURSIVE ListsUpTo(_, _)
ListsUpTo(S, n) ==
    IF n = 0 THEN {<<>>}
    ELSE LET shorter == ListsUpTo(S, n - 1)
         IN shorter \cup {Append(l, x) : l \in shorter, x \in S}

ReleaseSeries == {precise, quantal, raring, saucy, trusty, utopic, vivid, wily, xenial, yakkety, None}
ReleaseOrigins ==
    {None, <<>>, cloud_precise_folsom, cloud_precise_grizzly, cloud_precise_havana,
     cloud_precise_icehouse, cloud_trusty_juno, cloud_trusty_kilo, cloud_trusty_liberty,
     cloud_trusty_mitaka, cloud_xenial_newton, cloud_precise_newton,
     cloud_trusty_kilo_proposed, cloud_precise_zesty, precise_folsom, cloud_folsom}

BranchSeries == {precise, trusty, wily, xenial, yakkety, None}
BranchServices == [name : {mysql, mongodb, nrpe, keystone}, location : {None, <<>>, bob_location}]

AddSeries == {trusty, xenial}
AddServicesPool ==
    {[name |-> mysql, location |-> None], [name |-> nrpe, location |-> None],
     [name |-> keystone, location |-> None], [name |-> keystone, location |-> bob_location],
     [name |-> mysql, location |-> <<>>]}
ThisServices == {[name |-> keystone, location |-> None], [name |-> ceph, location |-> None]}
UseSourceInputs == {NoneObject, List(<<>>), List(<<keystone, nrpe>>)}
NoOriginInputs == {NoneObject, List(<<>>), List(<<keystone>>), List(<<mysql>>)}

DeployedServices == {keystone, mysql, nrpe}
SelectableServices == {keystone, mysql}
WaitMessages == {NoneObject, Str(<<>>), Str(unit_is_ready), Pattern(unit_is_ready_pattern, "")}
WaitSelections == {NoneObject} \cup {List(l) : l \in ListsUpTo(SelectableServices, MaxSelection)}
WaitTimeouts == {default_timeout, 60}

\* Each behaviour follows one call of a list-taking method on a newly
\* constructed object (result.op = "__init__"): the methods read only the
\* attributes __init__ sets and self.d.services, so a later call behaves as
\* a first one does on an object in that state.

DetermineBranchLocations ==
    \E other_services \in ListsUpTo(BranchServices, MaxOthers) :
        /\ result.op = "__init__"
        /\ args' = [other_services |-> other_services]
        /\ result' = Outcome("_determine_branch_locations", Return(determine_branch_locations(Self, other_services)))
        /\ d_calls' = <<>>
        /\ UNCHANGED <<series, openstack, source, stable, d_services>>

AddServices ==
    \E this_service \in ThisServices, other_services \in ListsUpTo(AddServicesPool, MaxOthers), use_source \in UseSourceInputs, no_origin \in NoOriginInputs :
        /\ result.op = "__init__"
        /\ args' = [this_service |-> this_service, other_services |-> other_services, use_source |-> use_source, no_origin |-> no_origin]
        /\ d_calls' = add_services_calls(Self, this_service, other_services, use_source, no_origin)
        /\ d_services' = d_services \cup base_services(this_service, other_services)
        /\ result' = Outcome("_add_services", Return(add_services_list(Self, this_service, other_services)))
        /\ UNCHANGED <<series, openstack, source, stable>>

AutoWaitForStatus ==
    \E message \in WaitMessages, exclude_services \in WaitSelections, include_only \in WaitSelections, timeout \in WaitTimeouts, sentry_exc \in {"", "TimeoutError"} :
        /\ result.op = "__init__"
        /\ args' = [message |-> message, exclude_services |-> exclude_services, include_only |-> include_only, timeout |-> timeout]
        /\ d_calls' = auto_wait_calls(d_services, message, exclude_services, include_only, timeout)
        /\ result' = Outcome("_auto_wait_for_status", [exc |-> auto_wait_exc(exclude_services, include_only, sentry_exc), val |-> None])
        /\ UNCHANGED <<series, openstack, source, stable, d_services>>

GetOpenstackRelease ==
    /\ args' = <<>>
    /\ result' = Outcome("_get_openstack_release", get_openstack_release(Self))
    /\ d_calls' = <<>>
    /\ UNCHANGED <<series, openstack, source, stable, d_services>>

GetOpenstackReleaseString ==
    /\ args' = <<>>
    /\ result' = Outcome("_get_openstack_release_string", get_openstack_release_string(Self))
    /\ d_calls' = <<>>
    /\ UNCHANGED <<series, openstack, source, stable, d_services>>

GetCephExpectedPools ==
    \E radosgw \in BOOLEAN :
        /\ args' = [radosgw |-> radosgw]
        /\ result' = Outcome("get_ceph_expected_pools", get_ceph_expected_pools(Self, radosgw))
        /\ d_calls' = <<>>
        /\ UNCHANGED <<series, openstack, source, stable, d_services>>

\* The state after __init__; no call has been made.
Fresh ==
    /\ d_calls = <<>>
    /\ args = <<>>
    /\ result = [op |-> "__init__", exc |-> "", val |-> None]

\* Branch locations: every series and both values of stable.
InitBranch ==
    /\ series \in BranchSeries
    /\ stable \in BOOLEAN
    /\ openstack = None
    /\ source = None
    /\ d_services = {}
    /\ Fresh

SpecBranch == InitBranch /\ [][DetermineBranchLocations]_vars

\* Adding services: with and without an origin and a source.
Init ==
    /\ series \in AddSeries
    /\ stable \in BOOLEAN
    /\ openstack \in {None, <<>>, cloud_trusty_kilo}
    /\ source \in {None, ppa_source}
    /\ d_services = {}
    /\ Fresh

Next == AddServices

Spec == Init /\ [][Next]_vars

\* Waiting for status: the deployment holds some of the services.
InitWait ==
    /\ series = trusty
    /\ stable = TRUE
    /\ openstack = None
    /\ source = None
    /\ d_services \in SUBSET DeployedServices
    /\ Fresh

SpecWait == InitWait /\ [][AutoWaitForStatus]_vars

\* Releases: every series with every origin.
InitRelease ==
    /\ series \in ReleaseSeries
    /\ openstack \in ReleaseOrigins
    /\ stable = TRUE
    /\ source = None
    /\ d_services = {}
    /\ Fresh

NextRelease == GetOpenstackRelease \/ GetOpenstackReleaseString \/ GetCephExpectedPools

SpecRelease == InitRelease /\ [][NextRelease]_vars

\* ---- claims: releases, codenames and pools -------------------------------

\* The 16 pairs of the release table, each with the OpenStack release it stands for.
MappedPairs ==
    { <<precise, None, essex>>, <<precise, cloud_precise_folsom, folsom>>,
      <<precise, cloud_precise_grizzly, grizzly>>, <<precise, cloud_precise_havana, havana>>,
      <<precise, cloud_precise_icehouse, icehouse>>, <<trusty, None, icehouse>>,
      <<trusty, cloud_trusty_juno, juno>>, <<trusty, cloud_trusty_kilo, kilo>>,
      <<trusty, cloud_trusty_liberty, liberty>>, <<trusty, cloud_trusty_mitaka, mitaka>>,
      <<utopic, None, juno>>, <<vivid, None, kilo>>, <<wily, None, liberty>>,
      <<xenial, None, mitaka>>, <<xenial, cloud_xenial_newton, newton>>,
      <<yakkety, None, newton>> }

\* The entries of MappedPairs for the object's (series, openstack).
MappedHere == {e \in MappedPairs : e[1] = series /\ e[2] = openstack}

Codenames == {essex, folsom, grizzly, havana, icehouse, juno, kilo, liberty, mitaka, newton}

\* sub occurs in s.
Contains(s, sub) == \E i \in 1..(Len(s) - Len(sub) + 1) : SubSeq(s, i, i + Len(sub) - 1) = sub

\* C7: for every mapped (series, origin) pair and every radosgw flag,
\* get_ceph_expected_pools returns [rbd, cinder, glance] exactly when the
\* pair's release is Kilo, Liberty, Mitaka or Newton, and [data, metadata,
\* rbd, cinder, glance] for every earlier release, followed by the 5 gateway
\* pools if and only if radosgw is true, in that order.
C7_CephPoolsByRelease ==
    (result.op = "get_ceph_expected_pools" /\ MappedHere # {}) =>
        /\ result.exc = ""
        /\ \A e \in MappedHere :
              result.val =
                  (IF e[3] \in {kilo, liberty, mitaka, newton}
                   THEN <<"rbd", "cinder", "glance">>
                   ELSE <<"data", "metadata", "rbd", "cinder", "glance">>)
                  \o (IF args.radosgw
                      THEN <<".rgw.root", ".rgw.control", ".rgw", ".rgw.gc", ".users.uid">>
                      ELSE <<>>)

\* The pools of (trusty, cloud:trusty-kilo), the first Kilo pair, with radosgw.
C7_Witness ==
    /\ result.op = "get_ceph_expected_pools"
    /\ series = trusty /\ openstack = cloud_trusty_kilo /\ args.radosgw
    /\ result.exc = "" /\ Len(result.val) = 8 /\ result.val[1] = "rbd"

\* C8: _get_openstack_release returns, for each of the 16 mapped pairs, the
\* ordinal of the pair's <series>_<release> attribute, and raises a lookup
\* error (KeyError) for every other pair.
C8_ReleaseOrdinal ==
    result.op = "_get_openstack_release" =>
        IF MappedHere # {}
        THEN /\ result.exc = ""
             /\ result.val \in 0..15
             /\ \A e \in MappedHere : release_enum[result.val + 1] = <<e[1], e[3]>>
        ELSE result.exc = "KeyError"

\* (precise, cloud:precise-newton) is not mapped: the lookup raises.
C8_Witness ==
    /\ result.op = "_get_openstack_release"
    /\ series = precise /\ openstack = cloud_precise_newton
    /\ result.exc = "KeyError"

\* C9 as claimed: _get_openstack_release_string returns a value only for a
\* mapped (series, origin) pair, the value then being one of the 10
\* codenames, and raises for every unmapped pair.
C9_CodenameOnlyForMappedPairs ==
    result.op = "_get_openstack_release_string" =>
        IF MappedHere # {}
        THEN result.exc = "" => result.val \in Codenames
        ELSE result.exc # ""

\* C9 as amended: for a mapped pair the codename of the pair's release is
\* returned; an origin without ':' or without the '<series>-' marker raises
\* IndexError; with no origin a value is returned only for a series of the
\* codename table and is one of the 10 codenames.
C9_CodenameAmended ==
    result.op = "_get_openstack_release_string" =>
        /\ \A e \in MappedHere : result.exc = "" /\ result.val = e[3]
        /\ (Truthy(openstack) /\ (~Contains(openstack, <<":">>) \/ ~Contains(openstack, str(series) \o <<"-">>)))
               => result.exc = "IndexError"
        /\ ~Truthy(openstack) =>
               IF series \in {precise, quantal, raring, saucy, trusty, utopic, vivid, wily, xenial, yakkety}
               THEN result.exc = "" /\ result.val \in Codenames
               ELSE result.exc = "KeyError"

\* (precise, cloud:precise-folsom) is mapped and an origin is given: folsom
\* comes from the origin string, not from the series.
C9_Witness ==
    /\ result.op = "_get_openstack_release_string"
    /\ series = precise /\ openstack = cloud_precise_folsom
    /\ result.exc = "" /\ result.val = folsom

\* ---- claims: branch locations --------------------------------------------

\* The series a 'cs:<series>/<name>' location names.
LocationSeries(location) == split(split(location, <<":">>)[2], <<"/">>)[1]

\* C5: a dict with no location whose name is a base charm (mysql, mongodb,
\* nrpe) gets 'cs:<series>/<name>' when the charm supports the requested
\* series, and otherwise 'cs:<last of the charm's list>/<name>', which does
\* not name the requested series; stable plays no part.
C5_BaseCharmLocation ==
    result.op = "_determine_branch_locations" =>
        \A i \in DOMAIN args.other_services :
            LET svc == args.other_services[i]
                location == result.val[i].location
                supported == base_charms[svc.name]
                last == supported[Len(supported)]
            IN  (~Truthy(svc.location) /\ svc.name \in {mysql, mongodb, nrpe}) =>
                    IF In(series, supported)
                    THEN location = <<"c", "s", ":">> \o series \o <<"/">> \o svc.name
                    ELSE /\ location = <<"c", "s", ":">> \o last \o <<"/">> \o svc.name
                         /\ LocationSeries(location) # str(series)

\* mysql does not support xenial: its location names trusty, the last of its list.
C5_Witness ==
    /\ result.op = "_determine_branch_locations"
    /\ series = xenial
    /\ \E i \in DOMAIN args.other_services :
          /\ args.other_services[i] = [name |-> mysql, location |-> None]
          /\ LocationSeries(result.val[i].location) = trusty

\* C6: a dict passed with a location set keeps it, whatever the series, the
\* stable flag and the name; the dicts without a location are the ones changed.
C6_PresetLocationKept ==
    result.op = "_determine_branch_locations" =>
        /\ Len(result.val) = Len(args.other_services)
        /\ \A i \in DOMAIN args.other_services :
              IF Truthy(args.other_services[i].location)
              THEN result.val[i] = args.other_services[i]
              ELSE /\ result.val[i].location # args.other_services[i].location
                   /\ result.val[i].name = args.other_services[i].name

\* A base charm with a location set, under a series it does not support.
C6_Witness ==
    /\ result.op = "_determine_branch_locations"
    /\ series = yakkety
    /\ \E i \in DOMAIN args.other_services :
          /\ args.other_services[i] = [name |-> mysql, location |-> bob_location]
          /\ result.val[i].location = bob_location

\* ---- claims: _add_services -----------------------------------------------

\* The services the call configures: other_services and this_service.
ServiceNames == {result.val[i].name : i \in DOMAIN result.val}

\* The driver was told to set key on the service name.
Configured(name, key) ==
    \E i \in DOMAIN d_calls :
        d_calls[i].fn = "configure" /\ d_calls[i].service = name /\ d_calls[i].key = key

\* C1: whatever openstack, source, use_source and no_origin are, no service
\* of other_services plus this_service is configured with both
\* 'openstack-origin' and 'source'.
C1_NeverBothKeys ==
    result.op = "_add_services" =>
        \A name \in ServiceNames :
            ~(Configured(name, "openstack-origin") /\ Configured(name, "source"))

\* Origin and source are both given: mysql gets 'source', keystone
\* 'openstack-origin', and nrpe neither.
C1_Witness ==
    /\ result.op = "_add_services"
    /\ Truthy(openstack) /\ Truthy(source)
    /\ args.use_source = NoneObject /\ args.no_origin = NoneObject
    /\ {mysql, nrpe, keystone} \subseteq ServiceNames
    /\ Configured(mysql, "source") /\ ~Configured(mysql, "openstack-origin")
    /\ Configured(keystone, "openstack-origin") /\ ~Configured(keystone, "source")
    /\ ~Configured(nrpe, "source") /\ ~Configured(nrpe, "openstack-origin")

\* The list a caller's override stands for, as the claim reads it: the list
\* the caller gave, empty or not, and the default list when none was given.
Supplied(override, default) == IF override.type = "list" THEN override.value ELSE default

\* The list the code uses: the caller's when it is not empty, else the default.
Effective(override, default) == IF override.type = "list" /\ override.value # <<>> THEN override.value ELSE default

\* C2 as claimed: a name in both use_source and no_origin never gets
\* 'source'; a name in neither gets 'openstack-origin' when an origin is
\* given and never 'source'; for every pair of lists the caller supplies,
\* the empty ones included, and for the defaults.
C2_OverridesAsSupplied ==
    result.op = "_add_services" =>
        LET us == Supplied(args.use_source, default_use_source)
            no == Supplied(args.no_origin, default_no_origin)
        IN  \A name \in ServiceNames :
                /\ (In(name, us) /\ In(name, no)) => ~Configured(name, "source")
                /\ (~In(name, us) /\ ~In(name, no)) =>
                       /\ Truthy(openstack) => Configured(name, "openstack-origin")
                       /\ ~Configured(name, "source")

\* C2 as amended: the same, of the lists in effect: an empty list stands for
\* the default list, as an omitted one does.
C2_OverridesInEffect ==
    result.op = "_add_services" =>
        LET us == Effective(args.use_source, default_use_source)
            no == Effective(args.no_origin, default_no_origin)
        IN  \A name \in ServiceNames :
                /\ (In(name, us) /\ In(name, no)) => ~Configured(name, "source")
                /\ (~In(name, us) /\ ~In(name, no)) =>
                       /\ Truthy(openstack) => Configured(name, "openstack-origin")
                       /\ ~Configured(name, "source")

\* keystone is in both lists and gets neither key; mysql is in neither and
\* gets 'openstack-origin'.
C2_Witness ==
    /\ result.op = "_add_services"
    /\ Truthy(openstack) /\ Truthy(source)
    /\ args.use_source = List(<<keystone, nrpe>>) /\ args.no_origin = List(<<keystone>>)
    /\ {mysql, keystone} \subseteq ServiceNames
    /\ ~Configured(keystone, "source") /\ ~Configured(keystone, "openstack-origin")
    /\ Configured(mysql, "openstack-origin") /\ ~Configured(mysql, "source")

\* C4: the first call _add_services makes is the base class's _add_services,
\* made once, with every dict of other_services holding a non-empty location;
\* every configure call comes after it.
C4_LocationsBeforeHandOff ==
    result.op = "_add_services" =>
        /\ Len(d_calls) >= 1
        /\ d_calls[1].fn = "_add_services"
        /\ Len(d_calls[1].other_services) = Len(args.other_services)
        /\ \A i \in DOMAIN d_calls[1].other_services :
              /\ d_calls[1].other_services[i].name = args.other_services[i].name
              /\ Truthy(d_calls[1].other_services[i].location)
        /\ \A j \in 2..Len(d_calls) : d_calls[j].fn = "configure"

\* A list with a dict without a location and one with an empty location,
\* handed over with both resolved, and a configure call after the hand-off.
C4_Witness ==
    /\ result.op = "_add_services"
    /\ args.other_services = << [name |-> nrpe, location |-> None], [name |-> mysql, location |-> <<>>] >>
    /\ Len(d_calls) >= 2
    /\ d_calls[1].fn = "_add_services"
    /\ \A i \in 1..2 : Truthy(d_calls[1].other_services[i].location)
    /\ d_calls[2].fn = "configure"

\* ---- claims: _auto_wait_for_status ---------------------------------------

\* exclude_services and include_only are both given and not empty.
ConflictingSelection ==
    /\ args.exclude_services.type = "list" /\ args.exclude_services.value # <<>>
    /\ args.include_only.type = "list" /\ args.include_only.value # <<>>

\* C3: called with exclude_services and include_only both non-empty,
\* _auto_wait_for_status raises ValueError and makes no call on the sentry,
\* whatever the message and the timeout.
C3_ConflictingSelectionRaises ==
    (result.op = "_auto_wait_for_status" /\ ConflictingSelection) =>
        /\ result.exc = "ValueError"
        /\ d_calls = <<>>

\* Both selections name a service the deployment holds; a message is given.
C3_Witness ==
    /\ result.op = "_auto_wait_for_status"
    /\ args.exclude_services = List(<<mysql>>) /\ args.include_only = List(<<keystone>>)
    /\ args.message = Str(unit_is_ready) /\ args.timeout = 60
    /\ d_services = {keystone, mysql, nrpe}
    /\ result.exc = "ValueError" /\ d_calls = <<>>

\* C10: with at most one of exclude_services and include_only non-empty, the
\* sentry's wait_for_messages is called exactly once, with the caller's
\* timeout and a mapping whose keys are include_only when that is given and
\* otherwise the deployment's services less exclude_services; every key maps
\* to the caller's message, unchanged, or to the case-insensitive
\* '.*ready.*' pattern when no message is given.
C10_OneSentryCall ==
    (result.op = "_auto_wait_for_status" /\ ~ConflictingSelection) =>
        /\ Len(d_calls) = 1
        /\ d_calls[1].fn = "wait_for_messages"
        /\ d_calls[1].timeout = args.timeout
        /\ DOMAIN d_calls[1].messages =
               (IF args.include_only.type = "list" /\ args.include_only.value # <<>>
                THEN {args.include_only.value[i] : i \in DOMAIN args.include_only.value}
                ELSE d_services \ {args.exclude_services.value[i] : i \in DOMAIN args.exclude_services.value})
        /\ \A service \in DOMAIN d_calls[1].messages :
               d_calls[1].messages[service] =
                   (IF args.message.type = "NoneType" \/ args.message.value = <<>>
                    THEN Pattern(<<".", "*", "r", "e", "a", "d", "y", ".", "*">>, "IGNORECASE")
                    ELSE args.message)

\* mysql is excluded from a deployment of three services, with a compiled
\* pattern as the message: the two others are waited for with that pattern.
C10_Witness ==
    /\ result.op = "_auto_wait_for_status"
    /\ d_services = {keystone, mysql, nrpe}
    /\ args.exclude_services = List(<<mysql>>) /\ args.include_only = NoneObject
    /\ args.message = Pattern(unit_is_ready_pattern, "")
    /\ Len(d_calls) = 1
    /\ DOMAIN d_calls[1].messages = {keystone, nrpe}
    /\ d_calls[1].messages[keystone] = args.message
====
